---- MODULE Spec2Model ----
(***************************************************************************)
(* Model of src/convert_heic_to_jpg.py: the HEIC -> JPEG batch converter   *)
(* (convert_and_rename_heic_to_jpg) and the legacy-JPEG renamer            *)
(* (rename_jpg_files), over the three class folders Good, Bad, Ugly.       *)
(*                                                                         *)
(* File names are sequences of one-character strings, so that globbing,    *)
(* the regular expressions, int() and the f-string formatting are computed *)
(* as the code computes them.  pathlib's glob and Path.exists() are the    *)
(* POSIX ones: matching is case-sensitive and names that differ in case    *)
(* are different files.                                                    *)
(***************************************************************************)
EXTENDS Integers, Sequences, FiniteSets, TLC

(***************************************************************************)
(* Bounds of the model.                                                    *)
(***************************************************************************)
MaxFiles == 3
MaxFaulty == 1
MaxRuns == 2
MaxExt == 1

(***************************************************************************)
(* Characters and strings.                                                 *)
(***************************************************************************)
UpperChars == <<"A","B","C","D","E","F","G","H","I","J","K","L","M",
                "N","O","P","Q","R","S","T","U","V","W","X","Y","Z">>
LowerChars == <<"a","b","c","d","e","f","g","h","i","j","k","l","m",
                "n","o","p","q","r","s","t","u","v","w","x","y","z">>
DigitChars == <<"0","1","2","3","4","5","6","7","8","9">>

IndexOf(seq, c) == CHOOSE i \in 1..Len(seq) : seq[i] = c
InSeq(seq, c) == \E i \in 1..Len(seq) : seq[i] = c

\* ord(): the code point of a character, which is what str comparison uses
Ord(c) ==
    IF InSeq(UpperChars, c) THEN 64 + IndexOf(UpperChars, c)
    ELSE IF InSeq(LowerChars, c) THEN 96 + IndexOf(LowerChars, c)
    ELSE IF InSeq(DigitChars, c) THEN 47 + IndexOf(DigitChars, c)
    ELSE IF c = "." THEN 46
    ELSE 95   \* "_"

IsDigit(c) == InSeq(DigitChars, c)

\* str.lower(), one character
LowerChar(c) == IF InSeq(UpperChars, c) THEN LowerChars[IndexOf(UpperChars, c)] ELSE c

\* str.lower(), and the folding re.IGNORECASE applies to both sides
Lower(s) == [i \in 1..Len(s) |-> LowerChar(s[i])]

StartsWith(s, p) == Len(s) >= Len(p) /\ SubSeq(s, 1, Len(p)) = p
EndsWith(s, x) == Len(s) >= Len(x) /\ SubSeq(s, Len(s) - Len(x) + 1, Len(s)) = x

\* str < str: lexicographic by code point, a proper prefix first
RECURSIVE StrLess(_, _)
StrLess(a, b) ==
    IF b = <<>> THEN FALSE
    ELSE IF a = <<>> THEN TRUE
    ELSE IF Ord(Head(a)) # Ord(Head(b)) THEN Ord(Head(a)) < Ord(Head(b))
    ELSE StrLess(Tail(a), Tail(b))

\* sorted(): the names of a set, ascending
RECURSIVE Sorted(_)
Sorted(S) ==
    IF S = {} THEN <<>>
    ELSE LET m == CHOOSE x \in S : \A y \in S \ {x} : StrLess(x, y)
         IN  <<m>> \o Sorted(S \ {m})

\* int() of a string of decimal digits
RECURSIVE ParseInt(_)
ParseInt(s) ==
    IF s = <<>> THEN 0
    ELSE 10 * ParseInt(SubSeq(s, 1, Len(s) - 1)) + (Ord(s[Len(s)]) - 48)

\* str() of a non-negative int, as the f-string formats max_num / next_num
RECURSIVE FormatInt(_)
FormatInt(n) ==
    IF n < 10 THEN <<DigitChars[n + 1]>>
    ELSE FormatInt(n \div 10) \o <<DigitChars[(n % 10) + 1]>>

\* re.search(r'\d+', name): is there a digit at all
HasDigits(name) == \E i \in 1..Len(name) : IsDigit(name[i])

\* re.search(r'\d+', name).group(): the first maximal run of digits
FirstDigits(name) ==
    LET i == CHOOSE k \in 1..Len(name) :
                 IsDigit(name[k]) /\ \A m \in 1..(k - 1) : ~IsDigit(name[m])
        j == CHOOSE k \in i..Len(name) :
                 /\ \A m \in i..k : IsDigit(name[m])
                 /\ (k = Len(name) \/ ~IsDigit(name[k + 1]))
    IN  SubSeq(name, i, j)

\* Path.glob(prefix + "*" + suffix) on one name (POSIX: case-sensitive)
GlobMatch(prefix, suffix, name) ==
    /\ Len(name) >= Len(prefix) + Len(suffix)
    /\ StartsWith(name, prefix)
    /\ EndsWith(name, suffix)

ExtJpgLower == <<".","j","p","g">>
ExtJpgUpper == <<".","J","P","G">>
ExtHeicLower == <<".","h","e","i","c">>
ExtHeicUpper == <<".","H","E","I","C">>

\* re.compile(rf"^{class_name.lower()}\d+\.jpg$", re.IGNORECASE).match(name)
PatternMatch(class_name, name) ==
    LET low == Lower(name)
        pre == Lower(class_name)
        n == Len(low)
        p == Len(pre)
    IN  /\ n >= p + 1 + 4
        /\ SubSeq(low, 1, p) = pre
        /\ SubSeq(low, n - 3, n) = ExtJpgLower
        /\ \A i \in (p + 1)..(n - 4) : IsDigit(low[i])

\* f"{class_name.lower()}{num}.jpg"
NewName(class_name, num) == Lower(class_name) \o FormatInt(num) \o ExtJpgLower

(***************************************************************************)
(* The dataset: the class folders and the names a folder may hold at the   *)
(* start.                                                                  *)
(***************************************************************************)
class_folders == << <<"G","o","o","d">>, <<"B","a","d">>, <<"U","g","l","y">> >>

LabelIx == 1..Len(class_folders)

\* Good starts with any of eight names; Bad and Ugly, which the code treats
\* exactly as it treats Good, start with one so that the model stays small
RichNames(class_name) ==
    { NewName(class_name, 1),                                   \* good1.jpg
      NewName(class_name, 12),                                  \* good12.jpg
      class_name \o <<"1">> \o ExtJpgLower,                     \* Good1.jpg
      Lower(class_name) \o <<"_","4">> \o ExtJpgLower,          \* good_4.jpg
      <<"I","M","G","_","1">> \o ExtJpgLower,                   \* IMG_1.jpg
      <<"I","M","G","_","2">> \o ExtJpgUpper,                   \* IMG_2.JPG
      <<"a">> \o ExtHeicUpper,                                  \* a.HEIC
      <<"B">> \o ExtHeicLower }                                 \* B.heic

InitNames(i) ==
    IF i = 1 THEN RichNames(class_folders[i])
    ELSE IF i = 2 THEN { <<"a">> \o ExtHeicUpper }                  \* a.HEIC
    ELSE { <<"I","M","G","_","1">> \o ExtJpgLower }                \* IMG_1.jpg

VARIABLES
    dirs,              \* the class folders (indices) that exist under source_dir
    fs,                \* fs[i]: the names of the files in class folder i
    corrupt,           \* <<i, name>>: Image.open / convert / save of it raises
    locked,            \* <<i, name>>: unlink / rename of it raises (permissions)
    pc,                \* where the running call stands
    li,                \* index of class_name in class_folders
    queue,             \* what is left of heic_files / sorted(to_rename)
    num,               \* next_num (convert) or max_num (rename)
    delete_originals,  \* the argument of convert
    total_converted,
    total_deleted,
    total_errors,
    run,               \* what the running call has done so far (observation)
    runs,              \* the calls that returned, in order (observation)
    ext_events         \* number of changes made by the sync client so far

vars == <<dirs, fs, corrupt, locked, pc, li, queue, num, delete_originals,
          total_converted, total_deleted, total_errors, run, runs, ext_events>>

\* what a call has done: nothing yet
NoRun(op) ==
    [ op        |-> op,
      pre       |-> fs,      \* the folders as the call found them
      ext       |-> 0,       \* sync-client changes during the call
      folders   |-> {},      \* i: class folder i was found and listed
      scanned   |-> {},      \* <<i, name>> put in heic_files / to_rename
      canonical |-> {},      \* <<i, name>> put in already_renamed
      visited   |-> {},      \* <<i, name>> whose loop iteration was entered
      tried     |-> {},      \* <<i, name, n>>: <label><n>.jpg was computed for name
      assigned  |-> {},      \* <<i, name, n>>: name became <label><n>.jpg
      skipped   |-> {},      \* <<i, name, n>>: the loop took the "target exists" skip
      collided  |-> {},      \* <<i, name, n>>: <label><n>.jpg existed at line 83
      failed    |-> {},      \* <<i, name>>: an exception was caught for name
      starts    |-> {},      \* <<i, n>>: first number of folder i's loop
      vanished  |-> {},      \* <<i, name>> removed by the client before its turn
      removed   |-> {},      \* <<i, name>> removed by the client
      unlinked  |-> {},      \* <<i, name>> removed by heic_file.unlink()
      clobbered |-> {} ]     \* <<i, name>> existing files written over

\* glob("*.HEIC") + glob("*.heic") of one folder
IsHeic(name) ==
    \/ GlobMatch(<<>>, ExtHeicUpper, name)
    \/ GlobMatch(<<>>, ExtHeicLower, name)

\* set(glob("*.jpg")) | set(glob("*.JPG")) of one folder
IsJpg(name) ==
    \/ GlobMatch(<<>>, ExtJpgLower, name)
    \/ GlobMatch(<<>>, ExtJpgUpper, name)

\* the sets of at most k elements of S
RECURSIVE SubsetsUpTo(_, _)
SubsetsUpTo(S, k) ==
    IF k = 0 THEN {{}}
    ELSE LET smaller == SubsetsUpTo(S, k - 1)
         IN  smaller \cup { T \cup {x} : T \in smaller, x \in S }

\* every <<folder, name>> a dataset may start with
Slots == UNION { {i} \X InitNames(i) : i \in LabelIx }

\* At most MaxFiles files in all; a class folder exists iff it holds a file;
\* at most MaxFaulty of the files the code opens, unlinks or renames are
\* unreadable (HEIC only) or cannot be unlinked / renamed.
Init ==
    /\ \E files \in SubsetsUpTo(Slots, MaxFiles) :
          /\ fs = [i \in LabelIx |-> { f \in InitNames(i) : <<i, f>> \in files }]
          /\ \E bad \in SubsetsUpTo({ x \in files : ~PatternMatch(class_folders[x[1]], x[2]) },
                                      MaxFaulty) :
                \E c \in SUBSET { x \in bad : IsHeic(x[2]) } :
                    /\ corrupt = c
                    /\ locked = bad \ c
    /\ dirs = { i \in LabelIx : fs[i] # {} }
    /\ pc = "idle"
    /\ li = 1
    /\ queue = <<>>
    /\ num = 0
    /\ delete_originals = TRUE
    /\ total_converted = 0
    /\ total_deleted = 0
    /\ total_errors = 0
    /\ run = NoRun("none")
    /\ runs = <<>>
    /\ ext_events = 0

(***************************************************************************)
(* What the two functions compute from one directory listing.              *)
(***************************************************************************)
SetMax(S) == CHOOSE m \in S : \A n \in S : n <= m

\* sorted(list(class_dir.glob("*.HEIC")) + list(class_dir.glob("*.heic")))
HeicFiles(dir) == Sorted({ f \in dir : IsHeic(f) })

\* list(class_dir.glob(f"{class_name.lower()}*.jpg"))
Existing(label, dir) ==
    { f \in dir : GlobMatch(Lower(label), ExtJpgLower, f) }

\* a forgotten "+ 1"
NextNumNoStep(label, dir) ==
    LET existing == Existing(label, dir)
        nums == { ParseInt(FirstDigits(f)) : f \in { g \in existing : HasDigits(g) } }
    IN  IF existing # {}
        THEN (IF nums # {} THEN SetMax(nums) ELSE 1)
        ELSE 1

\* next_num of convert: one past the largest first digit run among existing
NextNum(label, dir) ==
    LET existing == Existing(label, dir)
        nums == { ParseInt(FirstDigits(f)) : f \in { g \in existing : HasDigits(g) } }
    IN  IF existing # {}
        THEN (IF nums # {} THEN SetMax(nums) + 1 ELSE 1)
        ELSE 1

\* all_jpgs of rename
AllJpgs(dir) == { f \in dir : IsJpg(f) }

\* the names rename puts in already_renamed
AlreadyRenamed(label, dir) ==
    { f \in AllJpgs(dir) : PatternMatch(label, f) }

\* the partition ignored: every JPEG is renamed
ToRenameAll(label, dir) == AllJpgs(dir)

\* the names rename puts in to_rename
ToRename(label, dir) ==
    { f \in AllJpgs(dir) : ~PatternMatch(label, f) }

\* max_num of rename before its loop
MaxNum(label, dir) ==
    LET already_renamed == AlreadyRenamed(label, dir)
    IN  IF already_renamed # {}
        THEN SetMax({ ParseInt(FirstDigits(f)) : f \in already_renamed })
        ELSE 0

\* the check of line 83 left out
TargetExistsNever(new_name, dir) == FALSE

\* new_path.exists()
TargetExists(new_name, dir) == new_name \in dir

\* a file that is gone taken for converted
OpensAlways(i, heic_file) == <<i, heic_file>> \notin corrupt

\* Image.open(heic_file) ... img.save(jpg_path) raise nothing
Opens(i, heic_file) == heic_file \in fs[i] /\ <<i, heic_file>> \notin corrupt

(***************************************************************************)
(* Steps shared by the two loops.                                          *)
(***************************************************************************)
class_name == class_folders[li]
Here == fs[li]

\* "break" where the code has "continue": the rest of the folder is dropped
NextFileBreak(scan, loop) ==
    /\ queue' = <<>>
    /\ pc' = scan
    /\ li' = li + 1

\* the for statement takes the next file, or the next class folder
NextFile(scan, loop) ==
    /\ queue' = Tail(queue)
    /\ IF Tail(queue) = <<>>
       THEN pc' = scan /\ li' = li + 1
       ELSE pc' = loop /\ li' = li

\* "continue" of the outer loop
NextFolder ==
    /\ li' = li + 1
    /\ UNCHANGED <<pc, queue, num>>

(***************************************************************************)
(* convert_and_rename_heic_to_jpg(source_dir, delete_originals)            *)
(***************************************************************************)
CallConvert(d) ==
    /\ pc = "idle"
    /\ Len(runs) < MaxRuns
    /\ pc' = "conv_scan"
    /\ li' = 1
    /\ queue' = <<>>
    /\ num' = 0
    /\ delete_originals' = d
    /\ total_converted' = 0
    /\ total_deleted' = 0
    /\ total_errors' = 0
    /\ run' = NoRun("convert")
    /\ UNCHANGED <<dirs, fs, corrupt, locked, runs, ext_events>>

\* lines 110-135: one class folder is listed and next_num is set
ConvertScan ==
    /\ pc = "conv_scan"
    /\ li \in LabelIx
    /\ IF li \notin dirs
       THEN NextFolder /\ UNCHANGED run
       ELSE IF HeicFiles(Here) = <<>>
       THEN NextFolder /\ run' = [run EXCEPT !.folders = @ \cup {li}]
       ELSE /\ queue' = HeicFiles(Here)
            /\ num' = NextNum(class_name, Here)
            /\ pc' = "conv_file"
            /\ li' = li
            /\ run' = [run EXCEPT
                         !.folders = @ \cup {li},
                         !.scanned = @ \cup ({li} \X { g \in Here : IsHeic(g) }),
                         !.starts = @ \cup { <<li, NextNum(class_name, Here)>> }]
    /\ UNCHANGED <<dirs, fs, corrupt, locked, delete_originals,
                   total_converted, total_deleted, total_errors, runs, ext_events>>

\* lines 139-148 and 155-157: open, convert, save, count
ConvertSave ==
    /\ pc = "conv_file"
    /\ LET heic_file == Head(queue)
           new_name == NewName(class_name, num)
       IN  IF Opens(li, heic_file)
           THEN /\ fs' = [fs EXCEPT ![li] = @ \cup {new_name}]
                /\ total_converted' = total_converted + 1
                /\ num' = num + 1
                /\ run' = [run EXCEPT
                             !.visited = @ \cup {<<li, heic_file>>},
                             !.tried = @ \cup {<<li, heic_file, num>>},
                             !.assigned = @ \cup {<<li, heic_file, num>>},
                             !.clobbered = @ \cup ({<<li, new_name>>} \cap ({li} \X Here))]
                /\ IF delete_originals
                   THEN pc' = "conv_unlink" /\ UNCHANGED <<li, queue>>
                   ELSE NextFile("conv_scan", "conv_file")
                /\ UNCHANGED total_errors
           ELSE /\ total_errors' = total_errors + 1
                /\ run' = [run EXCEPT
                             !.visited = @ \cup {<<li, heic_file>>},
                             !.tried = @ \cup {<<li, heic_file, num>>},
                             !.failed = @ \cup {<<li, heic_file>>}]
                /\ NextFile("conv_scan", "conv_file")
                /\ UNCHANGED <<fs, total_converted, num>>
    /\ UNCHANGED <<dirs, corrupt, locked, delete_originals, total_deleted, runs, ext_events>>

\* lines 151-157: heic_file.unlink(), inside the same try
ConvertUnlink ==
    /\ pc = "conv_unlink"
    /\ LET heic_file == Head(queue)
       IN  IF heic_file \in Here /\ <<li, heic_file>> \notin locked
           THEN /\ fs' = [fs EXCEPT ![li] = @ \ {heic_file}]
                /\ total_deleted' = total_deleted + 1
                /\ run' = [run EXCEPT !.unlinked = @ \cup {<<li, heic_file>>}]
                /\ UNCHANGED total_errors
           ELSE /\ total_errors' = total_errors + 1
                /\ run' = [run EXCEPT !.failed = @ \cup {<<li, heic_file>>}]
                /\ UNCHANGED <<fs, total_deleted>>
    /\ NextFile("conv_scan", "conv_file")
    /\ UNCHANGED <<dirs, corrupt, locked, num, delete_originals, total_converted,
                   runs, ext_events>>

\* lines 159-166: the summary and the returned triple
ConvertReturn ==
    /\ pc = "conv_scan"
    /\ li \notin LabelIx
    /\ pc' = "idle"
    /\ runs' = Append(runs, [ did  |-> run,
                              del  |-> delete_originals,
                              ret  |-> <<total_converted, total_deleted, total_errors>>,
                              post |-> fs ])
    /\ UNCHANGED <<dirs, fs, corrupt, locked, li, queue, num, delete_originals,
                   total_converted, total_deleted, total_errors, run, ext_events>>

(***************************************************************************)
(* rename_jpg_files(source_dir)                                            *)
(***************************************************************************)
CallRename ==
    /\ pc = "idle"
    /\ Len(runs) < MaxRuns
    /\ pc' = "ren_scan"
    /\ li' = 1
    /\ queue' = <<>>
    /\ num' = 0
    /\ run' = NoRun("rename")
    /\ UNCHANGED <<dirs, fs, corrupt, locked, delete_originals,
                   total_converted, total_deleted, total_errors, runs, ext_events>>

\* lines 32-69: one class folder is listed and split, max_num is set
RenameScan ==
    /\ pc = "ren_scan"
    /\ li \in LabelIx
    /\ IF li \notin dirs
       THEN NextFolder /\ UNCHANGED run
       ELSE LET to_rename == ToRename(class_name, Here)
                seen == [run EXCEPT
                           !.folders = @ \cup {li},
                           !.canonical = @ \cup ({li} \X AlreadyRenamed(class_name, Here)),
                           !.scanned = @ \cup ({li} \X to_rename)]
            IN  IF to_rename = {}
                THEN NextFolder /\ run' = seen
                ELSE /\ queue' = Sorted(to_rename)
                     /\ num' = MaxNum(class_name, Here)
                     /\ pc' = "ren_check"
                     /\ li' = li
                     /\ run' = [seen EXCEPT
                                  !.starts = @ \cup { <<li, MaxNum(class_name, Here) + 1>> }]
    /\ UNCHANGED <<dirs, fs, corrupt, locked, delete_originals,
                   total_converted, total_deleted, total_errors, runs, ext_events>>

\* lines 72-85: jpg.exists(), max_num += 1, new_path.exists()
RenameCheck ==
    /\ pc = "ren_check"
    /\ LET jpg == Head(queue)
           new_name == NewName(class_name, num + 1)
           seen == [run EXCEPT
                      !.visited = @ \cup {<<li, jpg>>},
                      !.tried = @ \cup {<<li, jpg, num + 1>>},
                      !.collided = @ \cup (IF new_name \in Here
                                           THEN {<<li, jpg, num + 1>>} ELSE {})]
       IN  IF jpg \notin Here
           THEN /\ run' = [run EXCEPT !.visited = @ \cup {<<li, jpg>>}]
                /\ NextFile("ren_scan", "ren_check")
                /\ UNCHANGED num
           ELSE /\ num' = num + 1
                /\ IF TargetExists(new_name, Here)
                   THEN /\ run' = [seen EXCEPT !.skipped = @ \cup {<<li, jpg, num + 1>>}]
                        /\ NextFile("ren_scan", "ren_check")
                   ELSE /\ run' = seen
                        /\ pc' = "ren_do"
                        /\ UNCHANGED <<li, queue>>
    /\ UNCHANGED <<dirs, fs, corrupt, locked, delete_originals,
                   total_converted, total_deleted, total_errors, runs, ext_events>>

\* lines 87-91: jpg.rename(new_path); os.rename replaces an existing target
RenameDo ==
    /\ pc = "ren_do"
    /\ LET jpg == Head(queue)
           new_name == NewName(class_name, num)
       IN  IF jpg \in Here /\ <<li, jpg>> \notin locked
           THEN /\ fs' = [fs EXCEPT ![li] = (@ \ {jpg}) \cup {new_name}]
                /\ run' = [run EXCEPT
                             !.assigned = @ \cup {<<li, jpg, num>>},
                             !.clobbered = @ \cup ({<<li, new_name>>} \cap ({li} \X Here))]
           ELSE /\ run' = [run EXCEPT !.failed = @ \cup {<<li, jpg>>}]
                /\ UNCHANGED fs
    /\ NextFile("ren_scan", "ren_check")
    /\ UNCHANGED <<dirs, corrupt, locked, num, delete_originals,
                   total_converted, total_deleted, total_errors, runs, ext_events>>

\* the function returns None after the last class folder
RenameReturn ==
    /\ pc = "ren_scan"
    /\ li \notin LabelIx
    /\ pc' = "idle"
    /\ runs' = Append(runs, [ did  |-> run,
                              del  |-> FALSE,
                              ret  |-> <<0, 0, 0>>,
                              post |-> fs ])
    /\ UNCHANGED <<dirs, fs, corrupt, locked, li, queue, num, delete_originals,
                   total_converted, total_deleted, total_errors, run, ext_events>>

(***************************************************************************)
(* The sync client (spec section 5): while a loop is between its scan and  *)
(* its action on a file, it may remove a file of the folder or drop in a   *)
(* file under a name the loop is about to use.                             *)
(***************************************************************************)
InLoop == pc \in {"conv_file", "conv_unlink", "ren_check", "ren_do"}

Pending == { queue[k] : k \in 1..Len(queue) }

ExtRemove ==
    /\ InLoop
    /\ ext_events < MaxExt
    /\ \E f \in Here :
          /\ fs' = [fs EXCEPT ![li] = @ \ {f}]
          /\ corrupt' = corrupt \ {<<li, f>>}
          /\ locked' = locked \ {<<li, f>>}
          /\ run' = [run EXCEPT
                       !.ext = @ + 1,
                       !.removed = @ \cup {<<li, f>>},
                       !.vanished = @ \cup
                           (IF f \in Pending /\ ~(pc = "conv_unlink" /\ f = Head(queue))
                            THEN {<<li, f>>} ELSE {})]
    /\ ext_events' = ext_events + 1
    /\ UNCHANGED <<dirs, pc, li, queue, num, delete_originals,
                   total_converted, total_deleted, total_errors, runs>>

ExtCreate ==
    /\ InLoop
    /\ ext_events < MaxExt
    /\ \E k \in {num, num + 1} :
          /\ k >= 1
          /\ NewName(class_name, k) \notin Here
          /\ fs' = [fs EXCEPT ![li] = @ \cup {NewName(class_name, k)}]
    /\ run' = [run EXCEPT !.ext = @ + 1]
    /\ ext_events' = ext_events + 1
    /\ UNCHANGED <<dirs, corrupt, locked, pc, li, queue, num, delete_originals,
                   total_converted, total_deleted, total_errors, runs>>

(***************************************************************************)
(* The specifications.                                                     *)
(***************************************************************************)
\* a step of the running call
Step ==
    \/ ConvertScan
    \/ ConvertSave
    \/ ConvertUnlink
    \/ ConvertReturn
    \/ RenameScan
    \/ RenameCheck
    \/ RenameDo
    \/ RenameReturn

\* the program alone: up to MaxRuns calls, one after the other
Next ==
    \/ \E d \in BOOLEAN : CallConvert(d)
    \/ CallRename
    \/ Step

Spec == Init /\ [][Next]_vars

\* one call of either function, with the sync client at work during it
NextSync ==
    \/ \E d \in BOOLEAN : runs = <<>> /\ CallConvert(d)
    \/ runs = <<>> /\ CallRename
    \/ Step
    \/ ExtRemove
    \/ ExtCreate

SpecSync == Init /\ [][NextSync]_vars

(***************************************************************************)
(* Vocabulary of the properties.                                           *)
(***************************************************************************)
\* a canonically named file of class folder i: <label><digits>.jpg, any case
Canonical(i, f) == PatternMatch(class_folders[i], f)
CanonicalIn(i, dir) == { f \in dir : Canonical(i, f) }
Suffix(f) == ParseInt(FirstDigits(f))
Numbered(i, lo, hi) == { NewName(class_folders[i], n) : n \in lo..hi }
HeicIn(dir) == { f \in dir : IsHeic(f) }

\* the call in progress (or the last one) and the calls that returned
AllDid == {run} \cup { runs[k].did : k \in 1..Len(runs) }
Returned == { runs[k] : k \in 1..Len(runs) }

\* the dataset before the first call
InitialFs ==
    IF runs # <<>> THEN runs[1].did.pre
    ELSE IF pc # "idle" THEN run.pre
    ELSE fs

\* the running call can take a step: it stands at a statement of one of the
\* two functions, and inside a loop there is a file to work on
CanStep ==
    \/ pc \in {"conv_scan", "ren_scan"}
    \/ InLoop /\ queue # <<>> /\ li \in LabelIx

\* x comes after y in the order the loops work in
After(x, y) == x[1] > y[1] \/ (x[1] = y[1] /\ StrLess(y[2], x[2]))

\* C1: after a convert call with deletion and no error, a class folder that
\* held N >= 1 HEIC files and no canonically named file has gained exactly
\* <label>1.jpg .. <label>N.jpg, numbered in the order of the HEIC names,
\* and holds no HEIC file.
C1_FreshFolderNumbering ==
    \A r \in Returned :
        (r.did.op = "convert" /\ r.del /\ r.ret[3] = 0) =>
            \A i \in dirs :
                LET before == r.did.pre[i]
                    N == Cardinality(HeicIn(before))
                    mine == { a \in r.did.assigned : a[1] = i }
                IN  (N >= 1 /\ CanonicalIn(i, before) = {}) =>
                        /\ r.post[i] \ before = Numbered(i, 1, N)
                        /\ { a[3] : a \in mine } = 1..N
                        /\ \A a, b \in mine : StrLess(a[2], b[2]) => a[3] < b[3]
                        /\ HeicIn(r.post[i]) = {}

\* C2: the first number convert assigns in a class folder is one past the
\* largest suffix of the folder's canonically named files, and 1 when there
\* is none; other files have no influence.
C2_StartsPastMaxCanonical ==
    \A d \in AllDid :
        d.op = "convert" =>
            \A st \in d.starts :
                LET can == CanonicalIn(st[1], d.pre[st[1]])
                IN  st[2] = IF can = {} THEN 1
                            ELSE SetMax({ Suffix(f) : f \in can }) + 1

\* C3: a source file whose target name existed when rename checked it is not
\* renamed and is still on disk unless the sync client took it, the target
\* is not written over, every later source file of the folder gets a larger
\* number, and once the folder is done every later source file was visited
\* and, unless the client took it, had a name computed for it.
C3_CollisionSkip ==
    run.op = "rename" =>
        \A s \in run.collided :
            LET i == s[1]
                src == s[2]
                n == s[3]
            IN  /\ \A a \in run.assigned : ~(a[1] = i /\ a[2] = src)
                /\ src \in fs[i] \/ <<i, src>> \in run.removed
                /\ <<i, NewName(class_folders[i], n)>> \notin run.clobbered
                /\ \A t \in run.tried : (t[1] = i /\ StrLess(src, t[2])) => t[3] > n
                /\ li > i =>
                      \A x \in run.scanned :
                          (x[1] = i /\ StrLess(src, x[2])) =>
                              /\ x \in run.visited
                              /\ x \in run.removed
                                 \/ \E t \in run.tried : t[1] = i /\ t[2] = x[2]

C3_Witness ==
    /\ pc = "idle"
    /\ run.op = "rename"
    /\ \E s \in run.collided : \E a \in run.assigned :
          a[1] = s[1] /\ StrLess(s[2], a[2]) /\ a[3] = s[3] + 1

\* C4: a file the sync client removes between the scan and its turn is
\* neither converted, renamed nor counted as deleted; the counts of convert
\* are the numbers of files actually converted and unlinked; the call never
\* stops before its end, and at its end every scanned file had its turn.
C4_VanishedFileTolerated ==
    /\ \A v \in run.vanished :
          /\ \A a \in run.assigned : ~(a[1] = v[1] /\ a[2] = v[2])
          /\ v \notin run.unlinked
    /\ run.op = "convert" =>
          /\ total_converted = Cardinality(run.assigned)
          /\ total_deleted = Cardinality(run.unlinked)
    /\ pc # "idle" => CanStep
    /\ (pc = "idle" /\ run.op # "none") => run.scanned \subseteq run.visited

C4_Witness ==
    /\ pc = "idle"
    /\ run.op = "convert"
    /\ \E v \in run.vanished : \E a \in run.assigned : After(<<a[1], a[2]>>, v)
    /\ total_errors = 1

\* C5: two convert calls with deletion, one after the other: the second
\* converts nothing and leaves the canonically named files as the first
\* left them.
C5_ConvertIdempotent ==
    (/\ Len(runs) = 2
     /\ \A k \in 1..2 : runs[k].did.op = "convert" /\ runs[k].del) =>
        /\ runs[2].ret[1] = 0
        /\ \A i \in LabelIx : CanonicalIn(i, runs[2].post[i]) = CanonicalIn(i, runs[1].post[i])

\* C6: a call never stops before its end, whatever is missing or fails; when
\* it has returned, every class folder that exists was listed, every file
\* it scanned had its turn, and convert's triple counts the files
\* converted, the originals unlinked and the exceptions caught.
C6_RunsToCompletion ==
    /\ pc # "idle" => CanStep
    /\ pc = "idle" =>
          \A r \in Returned :
              /\ r.did.folders = dirs
              /\ r.did.scanned \subseteq r.did.visited
              /\ r.did.op = "convert" =>
                    r.ret = << Cardinality(r.did.assigned),
                               Cardinality(r.did.unlinked),
                               Cardinality(r.did.failed) >>

C6_Witness ==
    /\ pc = "idle"
    /\ runs # <<>>
    /\ dirs # LabelIx
    /\ \E f \in run.failed : \E a \in run.assigned : After(<<a[1], a[2]>>, f)

\* canonically named files carry pairwise distinct positive suffixes
UniqueSuffixes(F) ==
    \A i \in LabelIx :
        \A f, g \in CanonicalIn(i, F[i]) :
            /\ Suffix(f) >= 1
            /\ f # g => Suffix(f) # Suffix(g)

\* C7: if the canonically named files of every class folder start with
\* pairwise distinct positive suffixes, they have them after any calls.
C7_SuffixesStayUnique ==
    UniqueSuffixes(InitialFs) => UniqueSuffixes(fs)

\* a folder of the shape <label>1.jpg .. <label>m.jpg plus HEIC files
Dense(i, dir) == dir \ HeicIn(dir) = Numbered(i, 1, Cardinality(dir \ HeicIn(dir)))

\* C8: convert with deletion, then rename, nothing failing: class folders
\* holding <label>1.jpg .. <label>m.jpg and h HEIC files end as
\* <label>1.jpg .. <label>(m+h).jpg, convert returns (h, h, 0) summed over
\* the folders, and rename renames nothing.
C8_Pipeline ==
    (/\ Len(runs) = 2
     /\ runs[1].did.op = "convert" /\ runs[1].del
     /\ runs[2].did.op = "rename"
     /\ corrupt = {} /\ locked = {}
     /\ \A i \in LabelIx : Dense(i, InitialFs[i])) =>
        LET h == Cardinality(UNION { {i} \X HeicIn(InitialFs[i]) : i \in LabelIx })
        IN  /\ \A i \in LabelIx : fs[i] = Numbered(i, 1, Cardinality(InitialFs[i]))
            /\ runs[1].ret = <<h, h, 0>>
            /\ runs[2].did.assigned = {}

C8_Witness ==
    /\ Len(runs) = 2
    /\ runs[1].did.op = "convert" /\ runs[1].del
    /\ runs[2].did.op = "rename"
    /\ corrupt = {} /\ locked = {}
    /\ \A i \in LabelIx : Dense(i, InitialFs[i])
    /\ Cardinality(HeicIn(InitialFs[1])) = 2
    /\ Cardinality(InitialFs[1]) = 3

\* C9: rename never renames or writes over a file that was canonically
\* named when it listed the folder, and that file stays; it renames a file
\* at most once; a second rename call after one in which nothing failed
\* renames nothing.
C9_CanonicalUntouched ==
    /\ \A d \in AllDid :
          d.op = "rename" =>
              /\ \A c \in d.canonical :
                    /\ \A a \in d.assigned : ~(a[1] = c[1] /\ a[2] = c[2])
                    /\ c \notin d.clobbered
                    /\ c[2] \in fs[c[1]]
              /\ \A a, b \in d.assigned : (a[1] = b[1] /\ a[2] = b[2]) => a = b
    /\ (/\ Len(runs) = 2
        /\ \A k \in 1..2 : runs[k].did.op = "rename"
        /\ runs[1].did.failed = {}) => runs[2].did.assigned = {}

C9_Witness ==
    /\ Len(runs) = 2
    /\ \A k \in 1..2 : runs[k].did.op = "rename"
    /\ runs[1].did.failed = {}
    /\ runs[1].did.assigned # {}
    /\ \E c \in runs[1].did.canonical : \E a \in runs[1].did.assigned : a[1] = c[1]

\* C10: when convert returns, every scanned HEIC file counts once, as
\* converted or as an error; deleted <= converted; deleted = 0 without
\* deletion; deleted counts the originals this call removed.
C10_CounterAccounting ==
    \A r \in Returned :
        r.did.op = "convert" =>
            /\ r.ret[1] + r.ret[3] = Cardinality(r.did.scanned)
            /\ r.ret[2] <= r.ret[1]
            /\ ~r.del => r.ret[2] = 0
            /\ r.ret[2] = Cardinality(r.did.unlinked)

====
